---------------------------- MODULE Spec2Model ----------------------------
(***************************************************************************)
(* A model of src/blockchain.py: the Blockchain class (the Ledger), its    *)
(* chain of blocks, its list of current transactions, canonical hashing    *)
(* and the proof-of-work predicate and search.                             *)
(*                                                                         *)
(* Python values are modelled as follows.                                  *)
(*   - a str is the sequence of its ASCII codes ("0000" is <<48,48,48,48>>)*)
(*   - a list object lives in `heap`; a variable or a dict entry that      *)
(*     holds a list holds its reference (an index into heap), so that two  *)
(*     names bound to one list object see each other's appends             *)
(*   - a value of varying type (previous_hash: int, None or str) is a      *)
(*     record [type, val]                                                  *)
(*   - hashlib.sha256 is a library function outside the repository; it is  *)
(*     modelled by a small deterministic digest over the input bytes       *)
(*     (order sensitive, every byte counts) with a hexadecimal digest of   *)
(*     DigestLen characters whose characters are '0' about half of the     *)
(*     time, so that proofs are found within a few dozen iterations.       *)
(*   - time() is modelled by a clock that advances with every call that    *)
(*     changes the object.                                                 *)
(*                                                                         *)
(* The module holds five specifications over the same variables.           *)
(*   - Spec: the methods called one after another, each call one step      *)
(*   - TrustSpec: short runs in which new_block is given any previous_hash *)
(*   - SearchSpec: one call of proof_of_work, one turn of its loop a step  *)
(*   - ThreadSpec: two calls at once, their lines interleaved              *)
(*   - PureSpec: the static methods hash and is_valid_proof on inputs of   *)
(*     their own                                                           *)
(* In Spec and TrustSpec the variable call is the last call made; in the   *)
(* other three it is the call, or the two calls, in progress.              *)
(***************************************************************************)
EXTENDS Integers, Sequences, FiniteSets, Bags, TLC

VARIABLES chain, current_transactions, heap, call, submitted

vars == <<chain, current_transactions, heap, call, submitted>>

(***************************************************************************)
(* Bounds of the model.                                                    *)
(***************************************************************************)
\* The number of calls that change the object (new_block, new_transaction).
MaxCalls == 4

(***************************************************************************)
(* Program constants.                                                      *)
(***************************************************************************)
GenesisPreviousHash == 1

GenesisProof == 100

Difficulty == 4

DigestLen == 6

(***************************************************************************)
(* Python values.                                                          *)
(***************************************************************************)
PyInt(n) == [type |-> "int", val |-> <<n>>]

PyStr(s) == [type |-> "str", val |-> s]

PyNone == [type |-> "NoneType", val |-> <<>>]

Quote == <<34>>

\* str(n) for a non-negative int: its decimal digits, as ASCII codes.
RECURSIVE Str(_)
Str(n) == IF n < 10 THEN <<48 + n>> ELSE Str(n \div 10) \o <<48 + (n % 10)>>

\* repr of the float that time() returns, for a whole number of seconds.
FloatRepr(t) == Str(t) \o <<46, 48>>

\* json.dumps of a str of plain ASCII characters.
JsonStr(s) == Quote \o s \o Quote

\* json.dumps of previous_hash: an int, None or a str.
JsonValue(v) ==
    IF v.type = "int" THEN Str(v.val[1])
    ELSE IF v.type = "NoneType" THEN <<110, 117, 108, 108>>
    ELSE JsonStr(v.val)

(***************************************************************************)
(* json.dumps(d, sort_keys = True) of a dict.  A dict is the sequence of   *)
(* its items <<key, rendered value>> in insertion order.                   *)
(***************************************************************************)
RECURSIVE StrLess(_, _)
StrLess(a, b) ==
    IF b = <<>> THEN FALSE
    ELSE IF a = <<>> THEN TRUE
    ELSE IF a[1] # b[1] THEN a[1] < b[1]
    ELSE StrLess(Tail(a), Tail(b))

RECURSIVE InsertItem(_, _)
InsertItem(item, sorted) ==
    IF sorted = <<>> THEN <<item>>
    ELSE IF StrLess(item[1], sorted[1][1]) THEN <<item>> \o sorted
    ELSE <<sorted[1]>> \o InsertItem(item, Tail(sorted))

\* A json.dumps without sort_keys: the items stay in insertion order.
SortKeys_insertion_order(items) == items

RECURSIVE SortKeys(_)
SortKeys(items) ==
    IF items = <<>> THEN <<>>
    ELSE InsertItem(items[1], SortKeys(Tail(items)))

RECURSIVE JoinItems(_)
JoinItems(items) ==
    IF items = <<>> THEN <<>>
    ELSE JsonStr(items[1][1]) \o <<58, 32>> \o items[1][2]
         \o (IF Len(items) > 1 THEN <<44, 32>> ELSE <<>>)
         \o JoinItems(Tail(items))

JsonDict(items) == <<123>> \o JoinItems(SortKeys(items)) \o <<125>>

RECURSIVE JoinList(_)
JoinList(rendered) ==
    IF rendered = <<>> THEN <<>>
    ELSE rendered[1]
         \o (IF Len(rendered) > 1 THEN <<44, 32>> ELSE <<>>)
         \o JoinList(Tail(rendered))

JsonList(rendered) == <<91>> \o JoinList(rendered) \o <<93>>

\* The dict of a transaction, as new_transaction writes it.
TransactionItems(tx) ==
    << <<<<115, 101, 110, 100, 101, 114>>, JsonStr(tx.sender)>>,
       <<<<114, 101, 99, 105, 112, 105, 101, 110, 116>>, JsonStr(tx.recipient)>>,
       <<<<97, 109, 111, 117, 110, 116>>, Str(tx.amount)>> >>

\* The dict of a block, as new_block writes it; h is the heap of list objects.
BlockItems(block, h) ==
    << <<<<105, 110, 100, 101, 120>>, Str(block.index)>>,
       <<<<116, 105, 109, 101, 115, 116, 97, 109, 112>>, FloatRepr(block.timestamp)>>,
       <<<<116, 114, 97, 110, 115, 97, 99, 116, 105, 111, 110, 115>>,
         JsonList([i \in 1..Len(h[block.transactions]) |->
                      JsonDict(TransactionItems(h[block.transactions][i]))])>>,
       <<<<112, 114, 111, 111, 102>>, Str(block.proof)>>,
       <<<<112, 114, 101, 118, 105, 111, 117, 115, 95, 104, 97, 115, 104>>,
         JsonValue(block.previous_hash)>> >>

(***************************************************************************)
(* hashlib.sha256(bytes).hexdigest(), scaled down.                         *)
(***************************************************************************)
\* The compression of the bytes: a checksum in which every byte weighs by its
\* position (BagCardinality adds up the values of the function).
Absorb(bytes) ==
    (7 + BagCardinality([i \in 1..Len(bytes) |->
                            (bytes[i] + 1) * (((i * i) % 251) + 1)])) % 65521

HexChar(d) == IF d < 10 THEN 48 + d ELSE 87 + d

Nibble(h, i) == IF (h \div (2 ^ (i - 1))) % 2 = 0 THEN 0 ELSE 1 + ((h \div (2 ^ (i - 1))) % 15)

\* The digest of the bytes, as hexadecimal characters.  (The bytes and their
\* compression are bound through one-element sets so that each is evaluated
\* once.)
sha256_hexdigest(bytes) ==
    CHOOSE d \in { [i \in 1..DigestLen |-> HexChar(Nibble(h, i))] :
                     h \in { Absorb(b) : b \in {bytes} } } : TRUE

(***************************************************************************)
(* Blockchain.hash, Blockchain.is_valid_proof, Blockchain.proof_of_work.   *)
(***************************************************************************)
hash(block, h) == sha256_hexdigest(JsonDict(BlockItems(block, h)))

Zeros == [i \in 1..Difficulty |-> 48]

\* A check of the digest of last_proof followed by proof.
is_valid_proof_last_first(last_proof, proof) ==
    LET encoded == Str(last_proof) \o Str(proof)
        hashed == sha256_hexdigest(encoded)
    IN  SubSeq(hashed, 1, Difficulty) = Zeros

\* A check of the digest of the sum of the two numbers.
is_valid_proof_sum(last_proof, proof) ==
    LET encoded == Str(proof + last_proof)
        hashed == sha256_hexdigest(encoded)
    IN  SubSeq(hashed, 1, Difficulty) = Zeros

is_valid_proof(last_proof, proof) ==
    LET encoded == Str(proof) \o Str(last_proof)
        hashed == sha256_hexdigest(encoded)
    IN  SubSeq(hashed, 1, Difficulty) = Zeros

\* A search that adds one to proof once more after the check has passed.
RECURSIVE proof_loop_overshoot(_, _)
proof_loop_overshoot(last_proof, proof) ==
    IF ~is_valid_proof(last_proof, proof)
    THEN proof_loop_overshoot(last_proof, proof + 1)
    ELSE proof + 1

RECURSIVE proof_loop(_, _)
proof_loop(last_proof, proof) ==
    IF ~is_valid_proof(last_proof, proof)
    THEN proof_loop(last_proof, proof + 1)
    ELSE proof

proof_of_work_overshoot(last_proof) == proof_loop_overshoot(last_proof, 0)

proof_of_work(last_proof) == proof_loop(last_proof, 0)

(***************************************************************************)
(* The Blockchain object.  `self` is the record of its attributes: chain   *)
(* (a list of block dicts, modelled by value: the code never binds it to a *)
(* second name), current_transactions (a reference to a list object) and   *)
(* the heap of list objects.  Each method is an operator from the object   *)
(* and the arguments to the object afterwards and the value returned.      *)
(***************************************************************************)
IndexError == [raised |-> "IndexError"]

\* A last_block that reads self.chain[0].
last_block_first(self) ==
    IF Len(self.chain) = 0 THEN IndexError ELSE self.chain[1]

\* The property last_block: self.chain[-1].
last_block(self) ==
    IF Len(self.chain) = 0 THEN IndexError ELSE self.chain[Len(self.chain)]

\* A new_block that checks the proof against the last block's and appends
\* nothing when it is not valid.
new_block_validating(self, proof, previous_hash, now) ==
    LET block == [index |-> Len(self.chain) + 1,
                  timestamp |-> now,
                  transactions |-> self.current_transactions,
                  proof |-> proof,
                  previous_hash |-> previous_hash]
        fresh == Len(self.heap) + 1
    IN  IF Len(self.chain) > 0 /\ ~is_valid_proof(last_block(self).proof, proof)
        THEN [self |-> self, ret |-> PyNone]
        ELSE [self |-> [chain |-> Append(self.chain, block),
                        current_transactions |-> fresh,
                        heap |-> Append(self.heap, <<>>)],
              ret |-> block]

\* A new_block that leaves previous_hash at its default, None.
new_block_unlinked(self, proof, previous_hash, now) ==
    LET block == [index |-> Len(self.chain) + 1,
                  timestamp |-> now,
                  transactions |-> self.current_transactions,
                  proof |-> proof,
                  previous_hash |-> PyNone]
        fresh == Len(self.heap) + 1
    IN  [self |-> [chain |-> Append(self.chain, block),
                   current_transactions |-> fresh,
                   heap |-> Append(self.heap, <<>>)],
         ret |-> block]

\* A new_block without line 33: the block and the pool stay one list object.
new_block_no_reset(self, proof, previous_hash, now) ==
    LET block == [index |-> Len(self.chain) + 1,
                  timestamp |-> now,
                  transactions |-> self.current_transactions,
                  proof |-> proof,
                  previous_hash |-> previous_hash]
    IN  [self |-> [self EXCEPT !.chain = Append(self.chain, block)],
         ret |-> block]

\* A new_block that empties the list in place (current_transactions.clear())
\* instead of binding the name to a new list.
new_block_clear_in_place(self, proof, previous_hash, now) ==
    LET block == [index |-> Len(self.chain) + 1,
                  timestamp |-> now,
                  transactions |-> self.current_transactions,
                  proof |-> proof,
                  previous_hash |-> previous_hash]
    IN  [self |-> [chain |-> Append(self.chain, block),
                   current_transactions |-> self.current_transactions,
                   heap |-> [self.heap EXCEPT ![self.current_transactions] = <<>>]],
         ret |-> block]

\* A new_block that numbers the block len(self.chain).
new_block_index_len(self, proof, previous_hash, now) ==
    LET block == [index |-> Len(self.chain),
                  timestamp |-> now,
                  transactions |-> self.current_transactions,
                  proof |-> proof,
                  previous_hash |-> previous_hash]
        fresh == Len(self.heap) + 1
    IN  [self |-> [chain |-> Append(self.chain, block),
                   current_transactions |-> fresh,
                   heap |-> Append(self.heap, <<>>)],
         ret |-> block]

\* new_block(proof, previous_hash); now is the value time() returns.
new_block(self, proof, previous_hash, now) ==
    LET block == [index |-> Len(self.chain) + 1,
                  timestamp |-> now,
                  transactions |-> self.current_transactions,
                  proof |-> proof,
                  previous_hash |-> previous_hash]
        fresh == Len(self.heap) + 1
    IN  [self |-> [chain |-> Append(self.chain, block),
                   current_transactions |-> fresh,
                   heap |-> Append(self.heap, <<>>)],
         ret |-> block]

\* A new_transaction that returns the index of the last block itself.
new_transaction_ret_last(self, sender, recipient, amount) ==
    LET tx == [sender |-> sender, recipient |-> recipient, amount |-> amount]
        after == [self EXCEPT !.heap[self.current_transactions] = Append(@, tx)]
    IN  [self |-> after, ret |-> last_block(after).index]

\* A new_transaction that puts the transaction at the head of the list.
new_transaction_prepend(self, sender, recipient, amount) ==
    LET tx == [sender |-> sender, recipient |-> recipient, amount |-> amount]
        after == [self EXCEPT !.heap[self.current_transactions] = <<tx>> \o @]
    IN  [self |-> after, ret |-> last_block(after).index + 1]

\* new_transaction(sender, recipient, amount).
new_transaction(self, sender, recipient, amount) ==
    LET tx == [sender |-> sender, recipient |-> recipient, amount |-> amount]
        after == [self EXCEPT !.heap[self.current_transactions] = Append(@, tx)]
    IN  [self |-> after, ret |-> last_block(after).index + 1]

\* An __init__ that passes its two values by position: new_block(1, 100).
init_positional(now) ==
    LET empty == [chain |-> <<>>, current_transactions |-> 1, heap |-> << <<>> >>]
    IN  new_block(empty, GenesisPreviousHash, PyInt(GenesisProof), now).self

\* __init__(): two empty lists, then the origin block.
init(now) ==
    LET empty == [chain |-> <<>>, current_transactions |-> 1, heap |-> << <<>> >>]
    IN  new_block(empty, GenesisProof, PyInt(GenesisPreviousHash), now).self

(***************************************************************************)
(* State: the attributes of the one Blockchain object, the last call made  *)
(* on it with its arguments and the value it returned, and the history of  *)
(* the transactions submitted, each with the index returned for it.        *)
(***************************************************************************)
Self == [chain |-> chain, current_transactions |-> current_transactions, heap |-> heap]

\* The contents of the pending pool and of a block's transactions list.
Pool == heap[current_transactions]

Transactions(block) == heap[block.transactions]

\* The chain with every block's transactions list read through the heap.
ChainView == [i \in 1..Len(chain) |-> [chain[i] EXCEPT !.transactions = heap[@]]]

(***************************************************************************)
(* Inputs.                                                                 *)
(***************************************************************************)
TxInputs == {[sender |-> <<65>>, recipient |-> <<66>>, amount |-> 5],
             [sender |-> <<66>>, recipient |-> <<65>>, amount |-> 12]}

\* Proofs a caller passes to new_block: the one the search finds, and 0.
ProofArgs == {proof_of_work(last_block(Self).proof), 0}

\* Previous hashes a caller passes: the hash of the last block, or none.
PreviousHashArgs == {PyStr(hash(last_block(Self), heap)), PyNone}

\* The calls made so far that changed the object: every block but the origin
\* block, and every transaction submitted.
Calls == (Len(chain) - 1) + Len(submitted)

\* The value time() returns: the clock advances with every call that changes
\* the object, so that every block gets a timestamp of its own.
Times == {Calls + 1}

Install(self) ==
    /\ chain' = self.chain
    /\ current_transactions' = self.current_transactions
    /\ heap' = self.heap

Init ==
    \E now \in {0} :
        /\ chain = init(now).chain
        /\ current_transactions = init(now).current_transactions
        /\ heap = init(now).heap
        /\ call = [op |-> "__init__", args |-> <<>>, ret |-> PyNone]
        /\ submitted = <<>>

NewBlock ==
    /\ Calls < MaxCalls
    /\ \E proof \in ProofArgs, previous_hash \in PreviousHashArgs, now \in Times :
          LET r == new_block(Self, proof, previous_hash, now)
          IN  /\ Install(r.self)
              /\ call' = [op |-> "new_block",
                          args |-> [proof |-> proof, previous_hash |-> previous_hash],
                          ret |-> r.ret]
              /\ UNCHANGED submitted

NewTransaction ==
    /\ Calls < MaxCalls
    /\ \E tx \in TxInputs :
          LET r == new_transaction(Self, tx.sender, tx.recipient, tx.amount)
          IN  /\ Install(r.self)
              /\ call' = [op |-> "new_transaction", args |-> tx, ret |-> r.ret]
              /\ submitted' = Append(submitted, [tx |-> tx, ret |-> r.ret])

ProofOfWork ==
    /\ call' = [op |-> "proof_of_work",
                args |-> last_block(Self).proof,
                ret |-> proof_of_work(last_block(Self).proof)]
    /\ UNCHANGED <<chain, current_transactions, heap, submitted>>

Hash ==
    /\ call' = [op |-> "hash", args |-> last_block(Self),
                ret |-> hash(last_block(Self), heap)]
    /\ UNCHANGED <<chain, current_transactions, heap, submitted>>

IsValidProof ==
    /\ \E proof \in ProofArgs :
          call' = [op |-> "is_valid_proof",
                   args |-> <<last_block(Self).proof, proof>>,
                   ret |-> is_valid_proof(last_block(Self).proof, proof)]
    /\ UNCHANGED <<chain, current_transactions, heap, submitted>>

LastBlock ==
    /\ call' = [op |-> "last_block", args |-> <<>>, ret |-> last_block(Self)]
    /\ UNCHANGED <<chain, current_transactions, heap, submitted>>

Next ==
    \/ NewBlock
    \/ NewTransaction
    \/ ProofOfWork
    \/ Hash
    \/ IsValidProof
    \/ LastBlock

Spec == Init /\ [][Next]_vars

(***************************************************************************)
(* Views of the state used by the properties.                              *)
(***************************************************************************)
\* The transactions of blocks 1..n, in chain order.
RECURSIVE CommittedUpTo(_)
CommittedUpTo(n) ==
    IF n = 0 THEN <<>> ELSE CommittedUpTo(n - 1) \o Transactions(chain[n])

\* The transactions submitted so far, in submission order.
SubmittedTxs == [k \in 1..Len(submitted) |-> submitted[k].tx]

\* The position in the chain of the block that holds the k-th transaction
\* submitted, 0 while it is pending.
BlockOfTx(k) ==
    IF k > Len(CommittedUpTo(Len(chain))) THEN 0
    ELSE CHOOSE i \in 1..Len(chain) :
            Len(CommittedUpTo(i - 1)) < k /\ k <= Len(CommittedUpTo(i))

\* Block i of chain c holds the hash of the block at position c[i].index - 1.
LinkedAt(c, h, i) == c[i].previous_hash = PyStr(hash(c[c[i].index - 1], h))

\* Block i of chain c holds a proof that is valid for the proof of block i - 1.
ProvenAt(c, i) == is_valid_proof(c[i - 1].proof, c[i].proof)

Readers == {"proof_of_work", "hash", "is_valid_proof", "last_block"}

(***************************************************************************)
(* C1 as stated: in every reachable state every block but the origin block *)
(* holds, as previous_hash, the hash of the block before it.  new_block    *)
(* stores whatever previous_hash it is given, so this fails.               *)
(***************************************************************************)
C1_EveryBlockLinked ==
    \A i \in 2..Len(chain) : LinkedAt(chain, heap, i)

(***************************************************************************)
(* C1 amended: a block made by a new_block call whose previous_hash        *)
(* argument is hash(last_block) holds the hash of the block before it, the *)
(* hash taken over the whole of that block; and a block that holds the     *)
(* hash of the block before it still does so after any further call.       *)
(***************************************************************************)
C1_LinkedWhenGivenHash ==
    [][ /\ ( /\ call'.op = "new_block"
             /\ call'.args.previous_hash = PyStr(hash(last_block(Self), heap)) )
           => /\ Len(chain') = Len(chain) + 1
              /\ LinkedAt(chain', heap', Len(chain'))
        /\ \/ chain' = chain /\ heap' = heap
           \/ \A i \in 2..Len(chain) :
                 LinkedAt(chain, heap, i) => LinkedAt(chain', heap', i) ]_vars

\* A third block linked to a second block that holds transactions and is
\* itself linked to the origin block, with a transaction submitted since.
C1_Witness ==
    /\ Len(chain) = 3
    /\ Pool # <<>>
    /\ Transactions(chain[2]) # <<>>
    /\ LinkedAt(chain, heap, 2)
    /\ LinkedAt(chain, heap, 3)

(***************************************************************************)
(* C2: the transactions of the blocks, in chain order, followed by the     *)
(* pending pool are exactly the transactions submitted, each once and in   *)
(* submission order; no list object is shared by two blocks or by a block  *)
(* and the pool.                                                           *)
(***************************************************************************)
C2_Conservation ==
    /\ CommittedUpTo(Len(chain)) \o Pool = SubmittedTxs
    /\ \A i \in 1..Len(chain) :
          /\ chain[i].transactions # current_transactions
          /\ \A j \in 1..Len(chain) :
                i # j => chain[i].transactions # chain[j].transactions

\* Two blocks that hold transactions, after four calls.
C2_Witness ==
    /\ Len(chain) = 3
    /\ Transactions(chain[2]) # <<>>
    /\ Transactions(chain[3]) # <<>>
    /\ Transactions(chain[2]) # Transactions(chain[3])

(***************************************************************************)
(* C3: a new_block call appends one block whose transactions are the whole *)
(* pool as it was, in order, and leaves the pool empty; the pool it takes  *)
(* is the run of transactions submitted last, in submission order (none    *)
(* when nothing was submitted: the block is appended all the same).        *)
(***************************************************************************)
C3_MintMovesPool ==
    [][ call'.op = "new_block" =>
          /\ Len(chain') = Len(chain) + 1
          /\ heap'[chain'[Len(chain')].transactions] = Pool
          /\ heap'[current_transactions'] = <<>>
          /\ Pool = SubSeq(SubmittedTxs, Len(submitted) - Len(Pool) + 1, Len(submitted))
          /\ Len(Pool) = Len(submitted) - Len(CommittedUpTo(Len(chain))) ]_vars

\* A block minted from an empty pool, then two different transactions, then
\* a block that holds both in submission order.
C3_Witness ==
    /\ call.op = "new_block"
    /\ Len(chain) = 3
    /\ Transactions(chain[2]) = <<>>
    /\ Len(Transactions(chain[3])) = 2
    /\ Transactions(chain[3])[1] # Transactions(chain[3])[2]
    /\ Transactions(chain[3]) = SubmittedTxs
    /\ Pool = <<>>

(***************************************************************************)
(* C4: every call leaves every block of the chain in place with all its    *)
(* fields, the contents of its transactions list included, and the chain   *)
(* never gets shorter; no block's transactions list is the pool's list.    *)
(***************************************************************************)
C4_AppendOnly ==
    [][ /\ Len(chain') >= Len(chain)
        /\ \A i \in 1..Len(chain) :
              /\ chain'[i] = chain[i]
              /\ heap'[chain'[i].transactions] = heap[chain[i].transactions]
        /\ \A i \in 1..Len(chain') :
              chain'[i].transactions # current_transactions' ]_vars

\* A transaction submitted after a block that holds a transaction was minted.
C4_Witness ==
    /\ call.op = "new_transaction"
    /\ Len(chain) >= 2
    /\ Transactions(last_block(Self)) # <<>>
    /\ Pool # <<>>

(***************************************************************************)
(* C5: the block at position i has index i, and a new_block call returns   *)
(* a block whose index is the length of the chain before the call plus 1.  *)
(***************************************************************************)
C5_SequentialIndices ==
    /\ \A i \in 1..Len(chain) : chain[i].index = i
    /\ call.op = "new_block" => call.ret.index = Len(chain)

C5_Witness ==
    /\ call.op = "new_block"
    /\ Len(chain) = MaxCalls + 1

(***************************************************************************)
(* C6: right after construction the chain is the origin block alone and    *)
(* the pool is empty; in every state the origin block has index 1,         *)
(* previous_hash 1, proof 100 and no transactions.                         *)
(***************************************************************************)
C6_Genesis ==
    /\ Len(chain) >= 1
    /\ chain[1].index = 1
    /\ chain[1].previous_hash = PyInt(1)
    /\ chain[1].proof = 100
    /\ Transactions(chain[1]) = <<>>
    /\ call.op = "__init__" => Len(chain) = 1 /\ Pool = <<>>

\* Transactions and blocks have come after the origin block.
C6_Witness ==
    /\ Len(chain) >= 2
    /\ CommittedUpTo(Len(chain)) # <<>>
    /\ Pool # <<>>

(***************************************************************************)
(* C7 as stated: in every reachable state every block but the origin block *)
(* holds a proof that is valid for the proof of the block before it.       *)
(* new_block runs no search and checks no proof, so this fails.            *)
(***************************************************************************)
C7_EveryBlockProven ==
    \A i \in 2..Len(chain) : ProvenAt(chain, i)

(***************************************************************************)
(* C7 amended: a block made by a new_block call whose proof argument is    *)
(* proof_of_work(proof of the last block) holds a proof that is valid for  *)
(* the proof of the block before it; and a block whose proof is valid      *)
(* still has a valid proof after any further call.                         *)
(***************************************************************************)
C7_ProvenWhenGivenSearchResult ==
    [][ /\ ( /\ call'.op = "new_block"
             /\ call'.args.proof = proof_of_work(last_block(Self).proof) )
           => /\ Len(chain') = Len(chain) + 1
              /\ ProvenAt(chain', Len(chain'))
        /\ \A i \in 2..Len(chain) : ProvenAt(chain, i) => ProvenAt(chain', i) ]_vars

\* Two blocks minted with the proof the search finds.
C7_Witness ==
    /\ Len(chain) = 3
    /\ chain[2].proof = proof_of_work(chain[1].proof)
    /\ chain[3].proof = proof_of_work(chain[2].proof)
    /\ ProvenAt(chain, 2)
    /\ ProvenAt(chain, 3)

(***************************************************************************)
(* C8: new_transaction returns the length of the chain plus 1; the index   *)
(* returned for a pending transaction is the length of the chain plus 1,   *)
(* and the index returned for a committed one is the index of the block    *)
(* that holds it.                                                          *)
(***************************************************************************)
C8_ReturnedIndex ==
    /\ call.op = "new_transaction" => call.ret = Len(chain) + 1
    /\ \A k \in 1..Len(submitted) :
          IF BlockOfTx(k) = 0
          THEN submitted[k].ret = Len(chain) + 1
          ELSE /\ chain[BlockOfTx(k)].index = submitted[k].ret
               /\ Transactions(chain[BlockOfTx(k)])
                     [k - Len(CommittedUpTo(BlockOfTx(k) - 1))] = submitted[k].tx

\* Two transactions submitted one after the other were committed together in
\* the second block, and one more, submitted since, is pending.
C8_Witness ==
    /\ Len(chain) = 2
    /\ Len(submitted) = 3
    /\ Len(Transactions(chain[2])) = 2
    /\ submitted[1].ret = 2
    /\ submitted[2].ret = 2
    /\ submitted[3].ret = 3
    /\ Len(Pool) = 1

(***************************************************************************)
(* C9: the chain is never empty, last_block does not raise and returns the *)
(* block at the last position, whose index is the length of the chain; it  *)
(* is the block the last new_block call returned.                          *)
(***************************************************************************)
C9_LastBlock ==
    /\ Len(chain) >= 1
    /\ last_block(Self) # IndexError
    /\ last_block(Self).index = Len(chain)
    /\ call.op = "last_block" => call.ret = chain[Len(chain)]
    /\ call.op = "new_block" => last_block(Self) = call.ret

\* last_block was called on a chain of several blocks.
C9_Witness ==
    /\ call.op = "last_block"
    /\ Len(chain) = 3
    /\ call.ret = chain[3]

(***************************************************************************)
(* C10: only new_block changes the chain and only new_block takes anything *)
(* out of the pool; new_transaction leaves the chain as it is and adds its *)
(* transaction at the end of the pool; proof_of_work, hash, is_valid_proof *)
(* and last_block change neither.                                          *)
(***************************************************************************)
C10_Frame ==
    [][ /\ ChainView' # ChainView => call'.op = "new_block"
        /\ (\E k \in 1..Len(Pool) : k > Len(Pool') \/ Pool'[k] # Pool[k])
              => call'.op = "new_block"
        /\ call'.op = "new_transaction" =>
              /\ ChainView' = ChainView
              /\ Pool' = Append(Pool, call'.args)
        /\ call'.op \in Readers => ChainView' = ChainView /\ Pool' = Pool ]_vars

\* A second, different transaction was added to a pool behind the first.
C10_Witness ==
    /\ call.op = "new_transaction"
    /\ Len(chain) >= 2
    /\ Len(Pool) = 2
    /\ Pool[1] # Pool[2]
    /\ Pool[2] = call.args

(***************************************************************************)
(* new_block called with any arguments.  A second specification, of short  *)
(* runs, in which the caller of new_block passes, besides the arguments of *)
(* Spec, a previous_hash that is some other digest or the number the       *)
(* origin block holds.                                                     *)
(***************************************************************************)
MaxTrustCalls == 3

\* A digest-shaped string that is the hash of no block of the run.
OtherDigest == [i \in 1..DigestLen |-> 102]

AnyPreviousHashArgs ==
    PreviousHashArgs \cup {PyStr(OtherDigest), PyInt(GenesisPreviousHash)}

NewBlockAny ==
    /\ Calls < MaxTrustCalls
    /\ \E proof \in ProofArgs, previous_hash \in AnyPreviousHashArgs, now \in Times :
          LET r == new_block(Self, proof, previous_hash, now)
          IN  /\ Install(r.self)
              /\ call' = [op |-> "new_block",
                          args |-> [proof |-> proof, previous_hash |-> previous_hash],
                          ret |-> r.ret]
              /\ UNCHANGED submitted

NewTransactionFew ==
    /\ Calls < MaxTrustCalls
    /\ NewTransaction

TrustNext == NewBlockAny \/ NewTransactionFew

TrustSpec == Init /\ [][TrustNext]_vars

(***************************************************************************)
(* C11: new_block trusts its input.  Whatever proof and previous_hash it   *)
(* is given (a proof that is not valid for the last block's proof, a       *)
(* previous_hash that is not the hash of the last block, none at all), the *)
(* call appends exactly one block behind the blocks there were, the block  *)
(* holds the two arguments as they were given, and the call returns that   *)
(* block.                                                                  *)
(***************************************************************************)
C11_MintTrustsInput ==
    [][ call'.op = "new_block" =>
          /\ Len(chain') = Len(chain) + 1
          /\ \A i \in 1..Len(chain) : chain'[i] = chain[i]
          /\ chain'[Len(chain')].proof = call'.args.proof
          /\ chain'[Len(chain')].previous_hash = call'.args.previous_hash
          /\ call'.ret = chain'[Len(chain')] ]_vars

\* Two blocks were appended with proofs that are not valid, one with no
\* previous_hash and one with a digest that is not the hash of the block
\* before it, and the last call returned the second of them.
C11_Witness ==
    /\ call.op = "new_block"
    /\ Len(chain) = 3
    /\ ~ProvenAt(chain, 2)
    /\ ~ProvenAt(chain, 3)
    /\ chain[2].previous_hash = PyNone
    /\ chain[3].previous_hash = PyStr(OtherDigest)
    /\ ~LinkedAt(chain, heap, 3)
    /\ call.args = [proof |-> chain[3].proof, previous_hash |-> PyStr(OtherDigest)]
    /\ call.ret = chain[3]

(***************************************************************************)
(* proof_of_work, one evaluation of the loop condition at a time.  A third *)
(* specification: the object is as __init__ left it and one call of        *)
(* proof_of_work(last_proof) runs.  call holds the argument, the place the *)
(* call has reached, the local variable proof, the number of times the     *)
(* condition of the loop was found true (the check of the proof failed),   *)
(* and the value returned, None until the call returns.  The loop has no   *)
(* bound of its own: the model follows it as far as proof = MaxProof.  The *)
(* thread that runs the call keeps running, hence the fairness condition.  *)
(***************************************************************************)
MaxLastProof == 20

MaxProof == 20

LastProofInputs == 0..MaxLastProof \cup {GenesisProof}

\* A search that starts at 1.
search_start_one == 0 + 1

\* Line 70: proof = 0.
search_start == 0

\* A search that tries every other number.
search_next_skip(proof) == proof + 2

\* Line 73: proof += 1.
search_next(proof) == proof + 1

SearchInit ==
    /\ chain = init(0).chain
    /\ current_transactions = init(0).current_transactions
    /\ heap = init(0).heap
    /\ submitted = <<>>
    /\ \E last_proof \in LastProofInputs :
          call = [op |-> "proof_of_work", args |-> last_proof, pc |-> "while",
                  proof |-> search_start, checks |-> 0, ret |-> PyNone]

\* Line 72 finds the proof not valid; line 73.
SearchCheckFails ==
    /\ call.pc = "while"
    /\ is_valid_proof(call.args, call.proof) = FALSE
    /\ call.proof < MaxProof
    /\ call' = [call EXCEPT !.proof = search_next(@), !.checks = @ + 1]
    /\ UNCHANGED <<chain, current_transactions, heap, submitted>>

\* Line 72 finds the proof valid; line 75.
SearchReturn ==
    /\ call.pc = "while"
    /\ is_valid_proof(call.args, call.proof) # FALSE
    /\ call' = [call EXCEPT !.pc = "return", !.ret = PyInt(call.proof)]
    /\ UNCHANGED <<chain, current_transactions, heap, submitted>>

SearchNext == SearchCheckFails \/ SearchReturn

SearchSpec == SearchInit /\ [][SearchNext]_vars /\ WF_vars(SearchNext)

\* Some proof that the model follows the search to is valid for last_proof.
SomeValidProof(last_proof) ==
    \E p \in 0..MaxProof : is_valid_proof(last_proof, p)

\* p is valid for last_proof and no smaller number is.
LeastValidProof(last_proof, p) ==
    /\ is_valid_proof(last_proof, p)
    /\ \A q \in 0..(p - 1) : ~is_valid_proof(last_proof, q)

(***************************************************************************)
(* C12: the value proof_of_work(last_proof) returns is the smallest        *)
(* non-negative integer that is a valid proof for last_proof: it is valid  *)
(* and every smaller number is not.  It is the value of the search taken   *)
(* as one call.                                                            *)
(***************************************************************************)
C12_SearchReturnsLeast ==
    call.pc = "return" =>
        /\ call.ret = PyInt(call.proof)
        /\ LeastValidProof(call.args, call.proof)
        /\ call.proof = proof_of_work(call.args)

\* The search for the proof after the origin block's returned a number that
\* is not 0.
C12_Witness ==
    /\ call.op = "proof_of_work"
    /\ call.pc = "return"
    /\ call.args = GenesisProof
    /\ call.proof > 0
    /\ call.ret = PyInt(call.proof)

(***************************************************************************)
(* C16: proof_of_work(last_proof) returns if and only if some number is a  *)
(* valid proof for last_proof.  While it runs, proof counts the checks     *)
(* that failed and every number below proof was found not valid; when it   *)
(* returns, it returns the least valid proof p after exactly p failed      *)
(* checks; when a valid proof exists the call does return; and when none   *)
(* exists as far as the search is followed, the call is still in its loop, *)
(* adding 1 to proof: nothing but a valid proof ends it.                   *)
(***************************************************************************)
C16_SearchTermination ==
    /\ [](IF call.pc = "while"
          THEN /\ call.checks = call.proof
               /\ \A q \in 0..(call.proof - 1) : ~is_valid_proof(call.args, q)
               /\ (~SomeValidProof(call.args) /\ call.proof < MaxProof)
                     => ENABLED SearchCheckFails
          ELSE /\ call.pc = "return"
               /\ call.ret = PyInt(call.checks)
               /\ LeastValidProof(call.args, call.checks))
    /\ [](~SomeValidProof(call.args) => call.pc = "while")
    /\ (SomeValidProof(call.args) ~> call.pc = "return")

\* A search returned after ten failed checks or more.
C16_Witness ==
    /\ call.pc = "return"
    /\ call.checks >= 10
    /\ call.ret = PyInt(call.checks)
    /\ SomeValidProof(call.args)

\* A search for which no proof up to MaxProof is valid is still in its loop
\* after MaxProof failed checks.
StillSearching ==
    /\ call.pc = "while"
    /\ call.checks = MaxProof
    /\ ~SomeValidProof(call.args)

(***************************************************************************)
(* Two calls at once.  A fourth specification: after __init__ and up to    *)
(* MaxPending calls of new_transaction, two threads call the object, the   *)
(* first new_block and the second new_block or new_transaction, and their  *)
(* steps interleave: new_block builds the block (lines 25-31: it reads the *)
(* length of the chain, the clock and the reference to the pool), resets   *)
(* the pool (line 33), then appends the block and returns it (lines 34 and *)
(* 36); new_transaction reads the reference to the pool, appends to that   *)
(* list (lines 49-53), then reads the last block's index (line 55).  The   *)
(* callers either wrap each call in one lock (mutex) or take none.  Here   *)
(* call holds the two calls, each with its place, its local value and what *)
(* it read, the lock, the clock, and the lengths of the chain and of the   *)
(* heap when the two calls began.                                          *)
(***************************************************************************)
MaxPending == 1

Threads == {1, 2}

\* The transactions submitted before the two calls begin.
PendingInputs == UNION { [1..n -> TxInputs] : n \in 0..MaxPending }

\* The object and the history after new_transaction was called on self with
\* each of txs in turn.
RECURSIVE SubmitAll(_, _)
SubmitAll(self, txs) ==
    IF txs = <<>> THEN [self |-> self, submitted |-> <<>>]
    ELSE LET before == SubmitAll(self, SubSeq(txs, 1, Len(txs) - 1))
             tx == txs[Len(txs)]
             r == new_transaction(before.self, tx.sender, tx.recipient, tx.amount)
         IN  [self |-> r.self,
              submitted |-> Append(before.submitted, [tx |-> tx, ret |-> r.ret])]

\* A block built with the index of the last block.
build_block_index_len(self, proof, previous_hash, now) ==
    [index |-> Len(self.chain),
     timestamp |-> now,
     transactions |-> self.current_transactions,
     proof |-> proof,
     previous_hash |-> previous_hash]

\* Lines 25-31: the dict display.
build_block(self, proof, previous_hash, now) ==
    [index |-> Len(self.chain) + 1,
     timestamp |-> now,
     transactions |-> self.current_transactions,
     proof |-> proof,
     previous_hash |-> previous_hash]

\* A reset that empties the list in place.
reset_transactions_in_place(self) ==
    [self EXCEPT !.heap[self.current_transactions] = <<>>]

\* Line 33: self.current_transactions = [].
reset_transactions(self) ==
    [self EXCEPT !.current_transactions = Len(self.heap) + 1,
                 !.heap = Append(self.heap, <<>>)]

\* Line 34: self.chain.append(block).
append_block(self, block) == [self EXCEPT !.chain = Append(self.chain, block)]

\* Line 49: the value of self.current_transactions, a reference to a list.
load_transactions(self) == self.current_transactions

\* Lines 49-53: append on that list.
append_transaction(self, list, tx) == [self EXCEPT !.heap[list] = Append(@, tx)]

\* Line 55.
next_index(self) == last_block(self).index + 1

MintCall(self) ==
    [op |-> "new_block",
     args |-> [proof |-> proof_of_work(last_block(self).proof),
               previous_hash |-> PyStr(hash(last_block(self), self.heap))],
     pc |-> "build", block |-> PyNone, seen |-> PyNone, appended |-> <<>>,
     ret |-> PyNone]

SubmitCall(tx) ==
    [op |-> "new_transaction", args |-> tx, pc |-> "load", list |-> 0,
     ret |-> PyNone]

ThreadInit ==
    \E pending \in PendingInputs, mutex \in BOOLEAN :
       LET s == SubmitAll(init(0), pending)
       IN  /\ chain = s.self.chain
           /\ current_transactions = s.self.current_transactions
           /\ heap = s.self.heap
           /\ submitted = s.submitted
           /\ \E other \in {MintCall(s.self)} \cup {SubmitCall(tx) : tx \in TxInputs} :
                 call = [mutex |-> mutex, lock |-> 0, clock |-> 1,
                         start |-> [chain |-> Len(s.self.chain),
                                    heap |-> Len(s.self.heap)],
                         threads |-> <<MintCall(s.self), other>>]

\* Thread t may take a step: no lock is used, or it is free or held by t.
CanRun(t) == call.mutex => call.lock \in {0, t}

Held(t) == IF call.mutex THEN t ELSE 0

BuildBlock(t) ==
    /\ call.threads[t].pc = "build"
    /\ CanRun(t)
    /\ LET th == call.threads[t]
           block == build_block(Self, th.args.proof, th.args.previous_hash,
                                call.clock)
           seen == [appends |-> Len(chain) - call.start.chain,
                    resets |-> Len(heap) - call.start.heap]
       IN  call' = [call EXCEPT !.lock = Held(t), !.clock = @ + 1,
                                !.threads[t].pc = "reset",
                                !.threads[t].block = block,
                                !.threads[t].seen = seen]
    /\ UNCHANGED <<chain, current_transactions, heap, submitted>>

ResetPool(t) ==
    /\ call.threads[t].pc = "reset"
    /\ CanRun(t)
    /\ Install(reset_transactions(Self))
    /\ call' = [call EXCEPT !.threads[t].pc = "append"]
    /\ UNCHANGED submitted

AppendBlock(t) ==
    /\ call.threads[t].pc = "append"
    /\ call.threads[t].op = "new_block"
    /\ CanRun(t)
    /\ Install(append_block(Self, call.threads[t].block))
    /\ call' = [call EXCEPT !.lock = 0,
                            !.threads[t].pc = "done",
                            !.threads[t].appended = Transactions(call.threads[t].block),
                            !.threads[t].ret = call.threads[t].block]
    /\ UNCHANGED submitted

LoadPool(t) ==
    /\ call.threads[t].pc = "load"
    /\ CanRun(t)
    /\ call' = [call EXCEPT !.lock = Held(t),
                            !.threads[t].pc = "append",
                            !.threads[t].list = load_transactions(Self)]
    /\ UNCHANGED <<chain, current_transactions, heap, submitted>>

AppendTx(t) ==
    /\ call.threads[t].pc = "append"
    /\ call.threads[t].op = "new_transaction"
    /\ CanRun(t)
    /\ Install(append_transaction(Self, call.threads[t].list, call.threads[t].args))
    /\ call' = [call EXCEPT !.threads[t].pc = "index"]
    /\ UNCHANGED submitted

ReturnIndex(t) ==
    /\ call.threads[t].pc = "index"
    /\ CanRun(t)
    /\ call' = [call EXCEPT !.lock = 0,
                            !.threads[t].pc = "done",
                            !.threads[t].ret = next_index(Self)]
    /\ submitted' = Append(submitted, [tx |-> call.threads[t].args,
                                       ret |-> next_index(Self)])
    /\ UNCHANGED <<chain, current_transactions, heap>>

ThreadNext ==
    \E t \in Threads :
        \/ BuildBlock(t)
        \/ ResetPool(t)
        \/ AppendBlock(t)
        \/ LoadPool(t)
        \/ AppendTx(t)
        \/ ReturnIndex(t)

ThreadSpec == ThreadInit /\ [][ThreadNext]_vars

\* Both calls have returned.
AllDone == \A t \in Threads : call.threads[t].pc = "done"

\* Every transaction submitted is held once, by a block or by the pool, and
\* they are held in the order of submission.
Conserved == CommittedUpTo(Len(chain)) \o Pool = SubmittedTxs

\* No list object is shared by two blocks or by a block and the pool.
NothingShared ==
    \A i \in 1..Len(chain) :
        /\ chain[i].transactions # current_transactions
        /\ \A j \in 1..Len(chain) :
              i # j => chain[i].transactions # chain[j].transactions

\* The index returned for a transaction is that of the block that holds it,
\* or the index the next block will have while the transaction is pending.
IndicesAgree ==
    \A k \in 1..Len(submitted) :
        IF BlockOfTx(k) = 0
        THEN submitted[k].ret = Len(chain) + 1
        ELSE chain[BlockOfTx(k)].index = submitted[k].ret

\* A block holds the transactions it held when it was appended.
BlocksKept ==
    \A t \in Threads :
        (call.threads[t].op = "new_block" /\ call.threads[t].pc = "done")
            => Transactions(call.threads[t].ret) = call.threads[t].appended

LedgerGuarantee == Conserved /\ NothingShared /\ IndicesAgree /\ BlocksKept

\* The second call is new_transaction, and both calls have returned.
SubmitRaceDone == AllDone /\ call.threads[2].op = "new_transaction"

(***************************************************************************)
(* C13: new_block and new_transaction are not safe to run at once without  *)
(* a lock.  When the two calls have returned, the ledger guarantees hold   *)
(* if each call ran under the lock, that is in either serial order: every  *)
(* transaction is held once, no list is shared, the index returned is that *)
(* of the block that holds the transaction (or of the next block while it  *)
(* is pending) and the block is as it was appended.  Without the lock no   *)
(* interleaving loses a transaction or commits one twice; the interleaving *)
(* of C13_Witness breaks the other two guarantees.                         *)
(***************************************************************************)
C13_SerialOrdersKeepGuarantee ==
    SubmitRaceDone =>
        /\ call.mutex => LedgerGuarantee
        /\ Conserved
        /\ NothingShared

\* Without a lock, new_transaction read the pool before new_block reset it
\* and appended to it after the block was appended: the block changed after
\* it was appended, and the index returned is not that of the block that
\* holds the transaction.
C13_Witness ==
    /\ SubmitRaceDone
    /\ ~call.mutex
    /\ ~BlocksKept
    /\ ~IndicesAgree
    /\ Len(chain) = 2
    /\ Transactions(chain[2])[Len(Transactions(chain[2]))] = call.threads[2].args
    /\ call.threads[2].ret = 3

\* The second call is new_block too, and both calls have returned.
MintRaceDone == AllDone /\ call.threads[2].op = "new_block"

\* Both calls built their block (read the length of the chain and the pool)
\* before either appended its block; before either reset the pool.
BothReadBeforeAppend == \A t \in Threads : call.threads[t].seen.appends = 0

BothReadBeforeReset == \A t \in Threads : call.threads[t].seen.resets = 0

\* The last two blocks carry the same index; the same transactions.
SameIndex == chain[Len(chain) - 1].index = chain[Len(chain)].index

SameTransactions ==
    Transactions(chain[Len(chain) - 1]) = Transactions(chain[Len(chain)])

(***************************************************************************)
(* C17 as stated: when two new_block calls without a lock both read the    *)
(* length of the chain and the pool before either appends its block, the   *)
(* chain ends with two blocks that carry the same index and the same       *)
(* transactions.  A call that reads after the other reset the pool and     *)
(* before it appended builds a block with the same index over the new,     *)
(* empty pool, so this fails.                                              *)
(***************************************************************************)
C17_SameBlocksWhenReadBeforeAppend ==
    (MintRaceDone /\ ~call.mutex /\ BothReadBeforeAppend)
        => SameIndex /\ SameTransactions

(***************************************************************************)
(* C17 amended: when both calls read before either appends, the chain ends *)
(* with two blocks that carry the same index; when both read before either *)
(* resets the pool, the two blocks also hold one and the same list of      *)
(* transactions, the whole pool as it was, so that every transaction that  *)
(* was pending is in two blocks; under mutual exclusion the two blocks     *)
(* have sequential indices, share no list, and every transaction is held   *)
(* once.                                                                   *)
(***************************************************************************)
C17_SameBlocksWhenReadBeforeReset ==
    MintRaceDone =>
        /\ BothReadBeforeAppend => SameIndex /\ ~call.mutex
        /\ BothReadBeforeReset =>
              /\ BothReadBeforeAppend
              /\ chain[Len(chain) - 1].transactions = chain[Len(chain)].transactions
              /\ Transactions(chain[Len(chain)]) = SubmittedTxs
              /\ Pool = <<>>
        /\ call.mutex =>
              /\ \A i \in 1..Len(chain) : chain[i].index = i
              /\ NothingShared
              /\ Conserved
              /\ BlocksKept

\* Without a lock the chain ends with two blocks that carry index 2 and hold
\* the transaction that was pending.
C17_Witness ==
    /\ MintRaceDone
    /\ ~call.mutex
    /\ BothReadBeforeReset
    /\ Len(chain) = 3
    /\ chain[2].index = 2
    /\ chain[3].index = 2
    /\ chain[2] # chain[3]
    /\ Transactions(chain[2]) # <<>>
    /\ Transactions(chain[2]) = Transactions(chain[3])

(***************************************************************************)
(* The static methods, called on their own.  A fifth specification: after  *)
(* __init__, and with or without the same transactions pending in the      *)
(* ledger, one call is made of hash, on a block dict whose five keys were  *)
(* written in any order and whose list of up to MaxPending transactions is *)
(* an object of its own, or of is_valid_proof, on any two numbers up to    *)
(* MaxProofArg; hash is then called once more on the same block.  Here     *)
(* call holds the arguments, the number of calls made and the values       *)
(* returned, in order.                                                     *)
(***************************************************************************)
MaxProofArg == 25

\* The orders in which the keys of a dict of n items can be written.
FieldOrders(n) ==
    { order \in [1..n -> 1..n] : \A i, j \in 1..n : i # j => order[i] # order[j] }

\* The dict that holds items, written in the given order.
Written(items, order) == [i \in 1..Len(items) |-> items[order[i]]]

\* Blockchain.hash of a dict given by its items in insertion order.
hash_dict(items) == sha256_hexdigest(JsonDict(items))

\* The blocks hashed: the list of transactions is the object at ref.
HashBlockInputs(ref) ==
    { [index |-> 2, timestamp |-> 1, transactions |-> ref,
       proof |-> GenesisProof, previous_hash |-> previous_hash] :
         previous_hash \in {PyInt(GenesisPreviousHash), PyNone, PyStr(OtherDigest)} }

HashCall(block, order) ==
    [op |-> "hash", args |-> [block |-> block, order |-> order],
     calls |-> 0, ret |-> <<>>]

IsValidProofCall(last_proof, proof) ==
    [op |-> "is_valid_proof", args |-> <<last_proof, proof>>,
     calls |-> 0, ret |-> <<>>]

PureInit ==
    \E transactions \in PendingInputs : \E pending \in {<<>>, transactions} :
       LET s == SubmitAll(init(0), pending)
           ref == Len(s.self.heap) + 1
       IN  /\ chain = s.self.chain
           /\ current_transactions = s.self.current_transactions
           /\ heap = Append(s.self.heap, transactions)
           /\ submitted = s.submitted
           /\ \/ \E block \in HashBlockInputs(ref) :
                    \E order \in FieldOrders(Len(BlockItems(block, heap))) :
                       call = HashCall(block, order)
              \/ /\ pending = <<>>
                 /\ transactions = <<>>
                 /\ \E last_proof \in 0..MaxProofArg, proof \in 0..MaxProofArg :
                       call = IsValidProofCall(last_proof, proof)

HashApply ==
    /\ call.op = "hash"
    /\ call.calls < 2
    /\ call' = [call EXCEPT
                  !.calls = @ + 1,
                  !.ret = Append(@, hash_dict(Written(BlockItems(call.args.block, heap),
                                                      call.args.order)))]
    /\ UNCHANGED <<chain, current_transactions, heap, submitted>>

IsValidProofApply ==
    /\ call.op = "is_valid_proof"
    /\ call.calls < 1
    /\ call' = [call EXCEPT
                  !.calls = @ + 1,
                  !.ret = Append(@, is_valid_proof(call.args[1], call.args[2]))]
    /\ UNCHANGED <<chain, current_transactions, heap, submitted>>

PureNext == HashApply \/ IsValidProofApply

PureSpec == PureInit /\ [][PureNext]_vars

\* The digest of the content of a block alone: its five fields in the order
\* new_block writes them, with a list of transactions in a heap of its own.
ContentDigest(block, transactions) ==
    hash([block EXCEPT !.transactions = 1], <<transactions>>)

(***************************************************************************)
(* C14: the digest hash returns is a function of the content of the block: *)
(* whatever the order in which the five keys were written, whatever list   *)
(* object holds the transactions and whatever the ledger holds when the    *)
(* call is made, it is the digest of the index, timestamp, transactions,   *)
(* proof and previous_hash of the block, so that two blocks with the same  *)
(* content get the same digest; a second call on the same block returns    *)
(* the same digest as the first.                                           *)
(***************************************************************************)
C14_DigestOfContent ==
    call.op = "hash" =>
        \A k \in 1..Len(call.ret) :
            /\ call.ret[k] = ContentDigest(call.args.block,
                                           Transactions(call.args.block))
            /\ call.ret[k] = call.ret[1]

\* hash was called twice, with transactions pending in the ledger, on a block
\* that holds a transaction and whose keys were written in the reverse of the
\* order of new_block.
C14_Witness ==
    /\ call.op = "hash"
    /\ call.calls = 2
    /\ Pool # <<>>
    /\ Transactions(call.args.block) # <<>>
    /\ \A i \in 1..5 : call.args.order[i] = 6 - i
    /\ call.ret[1] = hash(call.args.block, heap)
    /\ call.ret[2] = call.ret[1]

\* The decimal digits of a number below 1000, written out place by place.
Decimal(n) ==
    IF n < 10 THEN <<48 + n>>
    ELSE IF n < 100 THEN <<48 + (n \div 10), 48 + (n % 10)>>
    ELSE <<48 + (n \div 100), 48 + ((n \div 10) % 10), 48 + (n % 10)>>

\* The characters 0-9 and a-f.
LowerHex == (48..57) \cup (97..102)

(***************************************************************************)
(* C15: is_valid_proof(last_proof, proof) is true exactly when the digest, *)
(* in lowercase hexadecimal, of the decimal digits of proof followed by    *)
(* the decimal digits of last_proof begins with the four characters 0000.  *)
(***************************************************************************)
C15_FourLeadingZeros ==
    (call.op = "is_valid_proof" /\ call.calls = 1) =>
        LET last_proof == call.args[1]
            proof == call.args[2]
            hashed == sha256_hexdigest(Decimal(proof) \o Decimal(last_proof))
        IN  /\ \A i \in 1..Len(hashed) : hashed[i] \in LowerHex
            /\ call.ret[1] \in BOOLEAN
            /\ call.ret[1] <=> /\ hashed[1] = 48
                               /\ hashed[2] = 48
                               /\ hashed[3] = 48
                               /\ hashed[4] = 48

\* is_valid_proof returned True for a proof of two digits and a different
\* last_proof of two digits, for which it returns False the other way round.
C15_Witness ==
    /\ call.op = "is_valid_proof"
    /\ call.calls = 1
    /\ call.args[1] >= 10
    /\ call.args[2] >= 10
    /\ call.ret[1] = TRUE
    /\ is_valid_proof(call.args[2], call.args[1]) = FALSE

(***************************************************************************)
(* C18: is_valid_proof depends on its two arguments only through the       *)
(* string of digits str(proof) + str(last_proof): it returns the same      *)
(* value for any two pairs of numbers that give the same string, as proof  *)
(* 1 with last_proof 23 and proof 12 with last_proof 3.                    *)
(***************************************************************************)
C18_SameDigitsSameAnswer ==
    (call.op = "is_valid_proof" /\ call.calls = 1) =>
        \A last_proof2 \in 0..MaxProofArg, proof2 \in 0..MaxProofArg :
            Str(proof2) \o Str(last_proof2) = Str(call.args[2]) \o Str(call.args[1])
                => is_valid_proof(last_proof2, proof2) = call.ret[1]

\* is_valid_proof was called with last_proof 23 and proof 1, and proof 12
\* with last_proof 3 gives the same digits.
C18_Witness ==
    /\ call.op = "is_valid_proof"
    /\ call.calls = 1
    /\ call.args = <<23, 1>>
    /\ Str(12) \o Str(3) = Str(call.args[2]) \o Str(call.args[1])
    /\ is_valid_proof(3, 12) = call.ret[1]

==========================================================================
